---- MODULE Spec2Model ----
(***************************************************************************)
(* Model of time_series.py: get_target (the target-curve derivation) and   *)
(* work (read the file, average, derive the target, draw, save).           *)
(*                                                                         *)
(* Time is counted in ticks, TicksPerDay ticks to a day (datetime counts   *)
(* microseconds; the model keeps the rounding of timedelta(days=x) at a    *)
(* coarser resolution).  A date of the observed series is a midnight, a    *)
(* whole number of days.  Numbers that the code computes by true division  *)
(* are kept as fractions [n, d] with d > 0.                                *)
(***************************************************************************)
EXTENDS Integers, Sequences, FiniteSets, TLC

VARIABLES
    pc,                 \* where the process is: "idle" or a step of work / a function call
    ncalls,             \* number of calls made so far in this process
    args,               \* the arguments of the call in progress
    ts,                 \* work: the Series read from the file
    gt,                 \* the frame of the last get_target call (its locals and outcome)
    target,             \* work: the Series get_target returned
    thresholds_index,   \* work: the two x positions of every threshold line
    figure,             \* matplotlib's current figure: the artists drawn on it
    images,             \* the image files written by savefig
    raised,             \* the exception the last call raised to its caller (NoExc: it returned)
    stdout,             \* the lines printed
    roll                \* the averages computed from a series (rolling, expanding)

vars == <<pc, ncalls, args, ts, gt, target, thresholds_index, figure, images,
          raised, stdout, roll>>

(* Python's None, and a value that may be None: None is the empty tuple and a
   value x that is present is the one-element tuple Some(x), read with Val. *)
None == <<>>
Some(x) == <<x>>
Val(o) == o[1]

(* No exception: a call that returned. *)
NoExc == "none"


----------------------------------------------------------------------------
(* Bounds of the model *)

TicksPerDay == 4
MaxDay == 3
MaxLen == 2
MaxRollLen == 8
MaxCalls == 2

(* Program constants *)

window == 7
dpi == 200

----------------------------------------------------------------------------
(* Numbers *)

Day == TicksPerDay
Date(d) == d * Day

Frac(n, d) == [n |-> n, d |-> d]
FracOfInt(i) == Frac(i, 1)
FracEq(x, y) == x.n * y.d = y.n * x.d
FracLt(x, y) == x.n * y.d < y.n * x.d

(* A float that is not a number (the mean of a window that holds too few
   samples): the fraction with no denominator. *)
NaN == Frac(0, 0)
IsNaN(x) == x.d = 0

Min2(a, b) == IF b < a THEN b ELSE a
Max2(a, b) == IF b > a THEN b ELSE a
Abs(x) == IF x < 0 THEN -x ELSE x

RECURSIVE SeqMax(_)
SeqMax(s) == IF Len(s) = 1 THEN s[1] ELSE Max2(s[1], SeqMax(Tail(s)))
RECURSIVE SeqMin(_)
SeqMin(s) == IF Len(s) = 1 THEN s[1] ELSE Min2(s[1], SeqMin(Tail(s)))
RECURSIVE SeqSum(_)
SeqSum(s) == IF s = <<>> THEN 0 ELSE s[1] + SeqSum(Tail(s))

(* n / d rounded to the nearest integer, halves to the even neighbour: how
   timedelta turns a fractional number of days into its own unit. *)
RoundHalfEven(n, d) ==
    LET nn == IF d < 0 THEN -n ELSE n
        dd == IF d < 0 THEN -d ELSE d
        q == nn \div dd
        r == nn % dd
    IN  IF 2 * r < dd THEN q
        ELSE IF 2 * r > dd THEN q + 1
        ELSE IF q % 2 = 0 THEN q ELSE q + 1

(* timedelta(days=n/d), in ticks *)
timedelta(n, d) == RoundHalfEven(n * TicksPerDay, d)

----------------------------------------------------------------------------
(* Series: a sequence of [date, val] entries, in file order *)

Entry(date, val) == [date |-> date, val |-> val]
Index(s) == [i \in 1..Len(s) |-> s[i].date]
Values(s) == [i \in 1..Len(s) |-> s[i].val]

(* A changed argmin: the last position holding the minimum *)
argmin_last(s) == CHOOSE i \in 1..Len(s) :
                    /\ \A j \in 1..Len(s) : s[i] <= s[j]
                    /\ \A j \in (i + 1)..Len(s) : s[j] > s[i]

(* numpy's argmin: the first position holding the minimum *)
argmin(s) == CHOOSE i \in 1..Len(s) :
                /\ \A j \in 1..Len(s) : s[i] <= s[j]
                /\ \A j \in 1..(i - 1) : s[j] > s[i]

(* A changed date_range: the end itself left out *)
RECURSIVE date_range_open(_, _)
date_range_open(start, end) ==
    IF start >= end THEN <<>> ELSE <<start>> \o date_range_open(start + Day, end)

(* pd.date_range(start, end): daily steps from start, none beyond end *)
RECURSIVE date_range(_, _)
date_range(start, end) ==
    IF start > end THEN <<>> ELSE <<start>> \o date_range(start + Day, end)

(* np.linspace(start, stop, num): num evenly spaced values, the stop included
   only when num > 1 *)
linspace(start, stop, num) ==
    IF num = 1 THEN <<FracOfInt(start)>>
    ELSE [i \in 1..num |-> Frac(start * (num - 1) + (i - 1) * (stop - start), num - 1)]

Series(values, index) == [i \in 1..Len(index) |-> Entry(index[i], values[i])]

----------------------------------------------------------------------------
(* The averages: ts.rolling(window=7).mean() and ts.expanding().mean() *)

(* A changed default: a window of any size gives a mean *)
MinPeriodsOne(w) == 1

(* rolling(window=w) with no min_periods: pandas takes min_periods = w, a
   window holding fewer samples has the mean NaN *)
MinPeriods(w) == w

(* The mean of the trailing window of w samples ending at each position *)
RollingMean(v, w) ==
    [i \in 1..Len(v) |->
        LET lo == Max2(1, i - w + 1)
            n == i - lo + 1
        IN  IF n < MinPeriods(w) THEN NaN
            ELSE Frac(SeqSum(SubSeq(v, lo, i)), n)]

(* expanding() has min_periods = 1: the mean of all samples up to each
   position *)
ExpandingMean(v) == [i \in 1..Len(v) |-> Frac(SeqSum(SubSeq(v, 1, i)), i)]

----------------------------------------------------------------------------
(* get_target *)

(* ts[label]: the value stored under a date of the index.  The dates of a
   series are unique (the series is keyed by date), so one entry answers. *)
Lookup(s, label) == s[CHOOSE i \in 1..Len(s) : s[i].date = label].val

(* (np.abs(ts.index - target_start_date)).argmin() *)
NearestIdx(s, date) == argmin([i \in 1..Len(s) |-> Abs(s[i].date - date)])

(* max(thresholds) / min(thresholds), chosen by the sign of the gradient;
   thresholds is None or Some(list) *)
TargetEnd(target_gradient, thresholds) ==
    IF thresholds = None THEN [exc |-> "TypeError", val |-> 0]
    ELSE IF Val(thresholds) = <<>> THEN [exc |-> "ValueError", val |-> 0]
    ELSE IF target_gradient > 0
         THEN [exc |-> NoExc, val |-> SeqMax(Val(thresholds))]
         ELSE [exc |-> NoExc, val |-> SeqMin(Val(thresholds))]

(* A changed span: a zero divisor taken as a span of no days *)
TargetSpanUnchecked(n, d, numpy) ==
    IF d # 0 THEN [exc |-> NoExc, ticks |-> timedelta(n, d)]
    ELSE [exc |-> NoExc, ticks |-> 0]

(* timedelta(days=n / d).  A zero divisor raises ZeroDivisionError on Python
   numbers; on a numpy scalar (a start value read from the series) the
   quotient is inf or nan, which timedelta refuses with OverflowError or
   ValueError. *)
TargetSpan(n, d, numpy) ==
    IF d # 0 THEN [exc |-> NoExc, ticks |-> timedelta(n, d)]
    ELSE IF ~numpy THEN [exc |-> "ZeroDivisionError", ticks |-> 0]
    ELSE IF n # 0 THEN [exc |-> "OverflowError", ticks |-> 0]
    ELSE [exc |-> "ValueError", ticks |-> 0]

(* The locals of get_target when it returns or raises: exc names the
   exception, a local not yet assigned is None. *)
Frame(exc, start_date, start, end, end_date, index, values) ==
    [exc |-> exc, target_start_date |-> start_date, target_start |-> start,
     target_end |-> end, target_end_date |-> end_date,
     target_index |-> index, target_value |-> values]

NoFrame == Frame(NoExc, None, None, None, None, <<>>, <<>>)

(* get_target(target_start_date, target_gradient, target_start, ts,
   thresholds): every argument is None or Some(value). *)
GetTarget(target_start_date, target_gradient, target_start, s, thresholds) ==
    LET inferred == target_start = None
        bad == IF ~inferred THEN NoExc
               ELSE IF s = None THEN "AttributeError"
               ELSE IF target_start_date = None THEN "TypeError"
               ELSE IF Val(s) = <<>> THEN "ValueError"
               ELSE NoExc
    IN  IF bad # NoExc
        THEN Frame(bad, target_start_date, target_start, None, None, <<>>, <<>>)
        ELSE
        LET sd == IF inferred
                  THEN Some(Val(s)[NearestIdx(Val(s), Val(target_start_date))].date)
                  ELSE target_start_date
            sv == IF inferred THEN Some(Lookup(Val(s), Val(sd))) ELSE target_start
        IN  IF target_gradient = None
            THEN Frame("TypeError", sd, sv, None, None, <<>>, <<>>)
            ELSE
            LET e == TargetEnd(Val(target_gradient), thresholds)
            IN  IF e.exc # NoExc
                THEN Frame(e.exc, sd, sv, None, None, <<>>, <<>>)
                ELSE
                LET span == TargetSpan(e.val - Val(sv), Val(target_gradient), inferred)
                IN  IF span.exc # NoExc
                    THEN Frame(span.exc, sd, sv, Some(e.val), None, <<>>, <<>>)
                    ELSE IF sd = None
                    THEN Frame("TypeError", sd, sv, Some(e.val), None, <<>>, <<>>)
                    ELSE
                    LET ed == Val(sd) + span.ticks
                        index == date_range(Val(sd), ed)
                        values == linspace(Val(sv), e.val, Len(index))
                    IN  Frame(NoExc, sd, sv, Some(e.val), Some(ed), index, values)

(* pd.Series(target_value, index=target_index), what get_target returns *)
Returned(f) == Series(f.target_value, f.target_index)

----------------------------------------------------------------------------
(* work *)

(* A file: it cannot be opened ("missing"), its text is not a table
   ("malformed"), or it holds rows "value;date" (none: the empty file). *)
File(state, rows) == [state |-> state, rows |-> rows]
Row(val, date) == [val |-> val, date |-> date]

(* A changed reader: an empty file gives an empty series *)
ReadCsvEmptySeries(file) ==
    IF file.state = "missing" THEN [exc |-> "FileNotFoundError", series |-> <<>>]
    ELSE IF file.state = "malformed" THEN [exc |-> "ParserError", series |-> <<>>]
    ELSE [exc |-> NoExc,
          series |-> [i \in 1..Len(file.rows) |->
                        Entry(file.rows[i].date, file.rows[i].val)]]

(* pd.read_csv(..., delimiter=";", header=None, names=["Observations"],
   parse_dates=True, index_col=1, squeeze=True): the second column becomes
   the index, the first the observations, in the order of the file.  With no
   row to tell the number of columns, index_col=1 is out of the range of the
   one name given and read_csv raises IndexError (tests.py expects it). *)
ReadCsv(file) ==
    IF file.state = "missing" THEN [exc |-> "FileNotFoundError", series |-> <<>>]
    ELSE IF file.state = "malformed" THEN [exc |-> "ParserError", series |-> <<>>]
    ELSE IF file.rows = <<>> THEN [exc |-> "IndexError", series |-> <<>>]
    ELSE [exc |-> NoExc,
          series |-> [i \in 1..Len(file.rows) |->
                        Entry(file.rows[i].date, file.rows[i].val)]]

(* A changed handler: nothing printed *)
NoDiagnostic == <<>>

(* What the except clause of work prints before it raises again *)
Diagnostic == <<"Could not read data file">>

Artist(call, kind, style, color, label, x, y) ==
    [call |-> call, kind |-> kind, style |-> style, color |-> color,
     label |-> label, x |-> x, y |-> y]

FracSeq(v) == [i \in 1..Len(v) |-> FracOfInt(v[i])]

(* [min(ts.index[0], target.index[0]), max(ts.index[-1], target.index[-1])] *)
ThresholdsIndex(s, t) ==
    IF t = <<>> THEN [exc |-> "IndexError", val |-> None]
    ELSE [exc |-> NoExc,
          val |-> Some(<<Min2(s[1].date, t[1].date),
                         Max2(s[Len(s)].date, t[Len(t)].date)>>)]

(* What threshold_colours[i] or threshold_names[i] raises (i from 1) *)
Subscript(list, i) ==
    IF list = None THEN "TypeError"
    ELSE IF i > Len(Val(list)) THEN "IndexError"
    ELSE NoExc

(* The first pass of the loop over the thresholds that raises, the colour
   being looked up before the name; Len + 1 when none does *)
FirstFailing(thresholds, colours, names) ==
    LET bad == {i \in 1..Len(thresholds) :
                   Subscript(colours, i) # NoExc \/ Subscript(names, i) # NoExc}
    IN  IF bad = {} THEN Len(thresholds) + 1
        ELSE CHOOSE i \in bad : \A j \in bad : i <= j

(* The threshold lines of passes 1..n *)
ThresholdLines(call, n, x, thresholds, colours, names) ==
    [i \in 1..n |->
        Artist(call, "threshold", "--", Val(colours)[i], Val(names)[i], x,
               <<FracOfInt(thresholds[i]), FracOfInt(thresholds[i])>>)]

(* ts.plot, ra.mean().plot, ea.mean().plot, target.plot *)
SeriesLines(call, s, t) ==
    << Artist(call, "observations", "b.", "b", "Observations",
              Index(s), FracSeq(Values(s))),
       Artist(call, "rolling", "b-", "b", "Rolling weekly average",
              Index(s), RollingMean(Values(s), window)),
       Artist(call, "running", "b-", "b", "Running average",
              Index(s), ExpandingMean(Values(s))),
       Artist(call, "target", "--", "grey", "", Index(t), Values(t)) >>

(* A process starts with an empty current figure and nothing written *)
InitWork ==
    /\ pc = "idle"
    /\ ncalls = 0
    /\ args = None
    /\ ts = None
    /\ gt = NoFrame
    /\ target = None
    /\ thresholds_index = None
    /\ figure = <<>>
    /\ images = <<>>
    /\ raised = NoExc
    /\ stdout = <<>>
    /\ roll = None

(* work(...) is called: its locals are fresh, the current figure is the one
   the process already has *)
Call(argset, maxcalls) ==
    /\ pc = "idle"
    /\ ncalls < maxcalls
    /\ \E a \in argset : args' = Some(a)
    /\ ncalls' = ncalls + 1
    /\ pc' = "read"
    /\ ts' = None
    /\ gt' = NoFrame
    /\ target' = None
    /\ thresholds_index' = None
    /\ raised' = NoExc
    /\ UNCHANGED <<figure, images, stdout, roll>>

(* try: ts = pd.read_csv(...) except: print(...); raise *)
Read ==
    /\ pc = "read"
    /\ LET r == ReadCsv(Val(args).time_series_filename)
       IN  IF r.exc # NoExc
           THEN /\ stdout' = stdout \o [i \in 1..Len(Diagnostic) |->
                                          [call |-> ncalls, line |-> Diagnostic[i]]]
                /\ raised' = r.exc
                /\ pc' = "idle"
                /\ ts' = ts
           ELSE /\ ts' = Some(r.series)
                /\ pc' = "target"
                /\ UNCHANGED <<stdout, raised>>
    /\ UNCHANGED <<ncalls, args, gt, target, thresholds_index, figure, images, roll>>

(* ra = ts.rolling(window=7); ea = ts.expanding(); target = get_target(
   target_start_date, target_gradient, ts=ts, thresholds=thresholds): the
   start value of the caller is not passed on *)
Target ==
    /\ pc = "target"
    /\ gt' = GetTarget(Val(args).target_start_date, Val(args).target_gradient,
                       None, ts, Val(args).thresholds)
    /\ IF gt'.exc # NoExc
       THEN /\ raised' = gt'.exc
            /\ pc' = "idle"
            /\ target' = target
       ELSE /\ target' = Some(Returned(gt'))
            /\ pc' = "thresholds_index"
            /\ raised' = raised
    /\ UNCHANGED <<ncalls, args, ts, thresholds_index, figure, images, stdout, roll>>

SetThresholdsIndex ==
    /\ pc = "thresholds_index"
    /\ LET r == ThresholdsIndex(Val(ts), Val(target))
       IN  IF r.exc # NoExc
           THEN /\ raised' = r.exc
                /\ pc' = "idle"
                /\ thresholds_index' = thresholds_index
           ELSE /\ thresholds_index' = r.val
                /\ pc' = "plot"
                /\ raised' = raised
    /\ UNCHANGED <<ncalls, args, ts, gt, target, figure, images, stdout, roll>>

(* The loop over the thresholds, then the four series: every plot call draws
   on the current figure of the process *)
Plot ==
    /\ pc = "plot"
    /\ LET a == Val(args)
           t == Val(a.thresholds)
           k == FirstFailing(t, a.threshold_colours, a.threshold_names)
           lines == ThresholdLines(ncalls, k - 1, Val(thresholds_index), t,
                                   a.threshold_colours, a.threshold_names)
       IN  IF k <= Len(t)
           THEN /\ figure' = figure \o lines
                /\ raised' = IF Subscript(a.threshold_colours, k) # NoExc
                             THEN Subscript(a.threshold_colours, k)
                             ELSE Subscript(a.threshold_names, k)
                /\ pc' = "idle"
           ELSE /\ figure' = figure \o lines \o SeriesLines(ncalls, Val(ts), Val(target))
                /\ raised' = raised
                /\ pc' = "save"
    /\ UNCHANGED <<ncalls, args, ts, gt, target, thresholds_index, images, stdout, roll>>

(* plt.legend, plt.ylabel, plt.xlabel, plt.savefig(png_filename, dpi=200):
   the current figure is written as it stands, and stays as it is *)
SaveFig ==
    /\ pc = "save"
    /\ images' = Append(images, [call |-> ncalls, file |-> Val(args).png_filename,
                                 dpi |-> dpi, ylabel |-> Val(args).y_axis_label,
                                 artists |-> figure])
    /\ pc' = "idle"
    /\ UNCHANGED <<ncalls, args, ts, gt, target, thresholds_index, figure,
                   raised, stdout, roll>>

----------------------------------------------------------------------------
(* Inputs *)

Dates == {Date(d) : d \in 0..MaxDay}
Gradients == {-8, -2, -1, 0, 1, 2, 8}
StartValues == {10, 15, 30}
ObsValues == {15, 30}
ThresholdLists == {<<>>, <<10, 20>>, <<20, 10>>, <<15>>}

(* The series of n observations: any order of dates, no date twice *)
SeriesOfLen(n) ==
    {s \in [1..n -> [date : Dates, val : ObsValues]] :
        \A i, j \in 1..n : i # j => s[i].date # s[j].date}

AllSeries == UNION {SeriesOfLen(n) : n \in 0..MaxLen}

(* The arguments of a direct call of get_target: the series is passed when
   the start value is not. *)
TargetArgs ==
    {[target_start_date |-> Some(d), target_gradient |-> Some(g),
      target_start |-> Some(v), ts |-> None, thresholds |-> t] :
        d \in Dates, g \in Gradients, v \in StartValues,
        t \in {None} \cup {Some(x) : x \in ThresholdLists}}
    \cup
    {[target_start_date |-> Some(d), target_gradient |-> Some(g),
      target_start |-> None, ts |-> Some(s), thresholds |-> t] :
        d \in Dates, g \in Gradients, s \in AllSeries,
        t \in {None} \cup {Some(x) : x \in ThresholdLists}}

----------------------------------------------------------------------------
(* SpecTarget: get_target called on its own *)

InitTarget ==
    /\ pc = "call"
    /\ ncalls = 0
    /\ args \in TargetArgs
    /\ ts = None
    /\ gt = NoFrame
    /\ target = None
    /\ thresholds_index = None
    /\ figure = <<>>
    /\ images = <<>>
    /\ raised = NoExc
    /\ stdout = <<>>
    /\ roll = None

CallGetTarget ==
    /\ pc = "call"
    /\ gt' = GetTarget(args.target_start_date, args.target_gradient,
                       args.target_start, args.ts, args.thresholds)
    /\ raised' = gt'.exc
    /\ target' = IF gt'.exc = NoExc THEN Some(Returned(gt')) ELSE None
    /\ ncalls' = ncalls + 1
    /\ pc' = "done"
    /\ UNCHANGED <<args, ts, thresholds_index, figure, images, stdout, roll>>

NextTarget == CallGetTarget

SpecTarget == InitTarget /\ [][NextTarget]_vars

----------------------------------------------------------------------------
(* Inputs of work *)

MissingFile == File("missing", <<>>)
MalformedFile == File("malformed", <<>>)
EmptyFile == File("ok", <<>>)

(* Files of one and two rows, in date order and out of it *)
DataFiles ==
    { File("ok", <<Row(15, Date(1))>>),
      File("ok", <<Row(15, Date(0)), Row(30, Date(2))>>),
      File("ok", <<Row(30, Date(2)), Row(15, Date(0))>>),
      File("ok", <<Row(30, Date(0)), Row(15, Date(2))>>) }

WorkFiles == {MissingFile, MalformedFile, EmptyFile} \cup DataFiles

WorkThresholds == {None, Some(<<>>), Some(<<10, 20>>), Some(<<15>>)}

(* Names and colours: as many as two thresholds, too few, or None *)
WorkNames == {None, Some(<<"low">>), Some(<<"low", "high">>)}
WorkColours == {None, Some(<<"g">>), Some(<<"g", "r">>)}

WorkArgs ==
    {[time_series_filename |-> f, png_filename |-> "out.png",
      thresholds |-> t, threshold_names |-> n, threshold_colours |-> c,
      y_axis_label |-> "Value",
      target_start |-> v, target_start_date |-> d, target_gradient |-> g] :
        f \in WorkFiles, t \in WorkThresholds,
        n \in WorkNames, c \in WorkColours,
        v \in {None, Some(10)},
        d \in {None, Some(Date(0)), Some(Date(1))},
        g \in {None, Some(0), Some(1), Some(-1), Some(2)}}

(* The calls a process repeats: two thresholds and a target that rises from
   the first day *)
RepeatArgs ==
    {a \in WorkArgs :
        /\ a.time_series_filename \in
              {EmptyFile, File("ok", <<Row(15, Date(1))>>),
               File("ok", <<Row(15, Date(0)), Row(30, Date(2))>>)}
        /\ a.thresholds = Some(<<10, 20>>)
        /\ a.threshold_names = Some(<<"low", "high">>)
        /\ a.target_start = None
        /\ a.target_start_date = Some(Date(0))
        /\ a.target_gradient = Some(1)}

----------------------------------------------------------------------------
(* SpecWork: one call of work in a new process.
   Spec: a process that calls work again and again. *)

CallOnce == Call(WorkArgs, 1)

NextWork == CallOnce \/ Read \/ Target \/ SetThresholdsIndex \/ Plot \/ SaveFig

SpecWork == InitWork /\ [][NextWork]_vars

CallAgain == Call(RepeatArgs, MaxCalls)

Next == CallAgain \/ Read \/ Target \/ SetThresholdsIndex \/ Plot \/ SaveFig

Spec == InitWork /\ [][Next]_vars

----------------------------------------------------------------------------
(* Claims about get_target, checked under SpecTarget *)

(* The call is over and get_target was given a start date, a non-zero
   gradient, a non-empty threshold list and a start (a value, or a
   non-empty series to take it from). *)
TargetCallDone ==
    /\ pc = "done"
    /\ Val(args.target_gradient) # 0
    /\ args.thresholds # None
    /\ Val(args.thresholds) # <<>>
    /\ (args.target_start = None => Val(args.ts) # <<>>)

CalendarDay(t) == t \div Day

(* C2, as claimed: for every start date, start value, non-zero gradient and
   non-empty threshold list the returned series has first point (start_date,
   start_value) and last point (end_date, end_value), end_value being
   max(thresholds) for a positive and min(thresholds) for a negative
   gradient, and end_date = start_date + (end_value - start_value) / gradient
   days. *)
C2_FirstAndLastPoint ==
    TargetCallDone =>
        LET c == Returned(gt)
            g == Val(args.target_gradient)
            t == Val(args.thresholds)
        IN  /\ gt.exc = NoExc
            /\ Len(c) >= 1
            /\ c[1].date = Val(gt.target_start_date)
            /\ FracEq(c[1].val, FracOfInt(Val(gt.target_start)))
            /\ Val(gt.target_end) = IF g > 0 THEN SeqMax(t) ELSE SeqMin(t)
            /\ (Val(gt.target_end_date) - Val(gt.target_start_date)) * g
                  = (Val(gt.target_end) - Val(gt.target_start)) * TicksPerDay
            /\ c[Len(c)].date = Val(gt.target_end_date)
            /\ FracEq(c[Len(c)].val, FracOfInt(Val(gt.target_end)))

(* The example of the specification: thresholds [10, 20], gradient +1, start
   value 10 *)
IsExample ==
    /\ args.thresholds = Some(<<10, 20>>)
    /\ args.target_gradient = Some(1)
    /\ args.target_start = Some(10)

(* C3: the returned series has exactly one point per calendar day from the
   start date to the end date inclusive, its values strictly increase when
   the gradient is positive and strictly decrease when it is negative, and
   the example gives end value 20, an end date 10 days after the start and
   11 points. *)
C3_OnePointPerDayMonotone ==
    (TargetCallDone /\ gt.exc = NoExc) =>
        LET c == Returned(gt)
            g == Val(args.target_gradient)
            sd == Val(gt.target_start_date)
            ed == Val(gt.target_end_date)
        IN  /\ Len(c) = IF ed < sd THEN 0
                        ELSE CalendarDay(ed) - CalendarDay(sd) + 1
            /\ \A i \in 1..Len(c) : c[i].date = sd + (i - 1) * Day
            /\ g > 0 => \A i \in 1..(Len(c) - 1) : FracLt(c[i].val, c[i + 1].val)
            /\ g < 0 => \A i \in 1..(Len(c) - 1) : FracLt(c[i + 1].val, c[i].val)
            /\ IsExample =>
                  /\ Val(gt.target_end) = 20
                  /\ ed = sd + 10 * Day
                  /\ Len(c) = 11

C3_Witness ==
    /\ TargetCallDone
    /\ gt.exc = NoExc
    /\ IsExample
    /\ Len(Returned(gt)) = 11

(* A second case of C3: a negative gradient and a fractional number of days *)
C3_WitnessDecreasing ==
    /\ TargetCallDone
    /\ gt.exc = NoExc
    /\ Val(args.target_gradient) = -2
    /\ Len(Returned(gt)) = 3
    /\ Val(gt.target_end_date) # Returned(gt)[3].date

(* C4: without a start value, the start point used is the entry of the
   series whose date is nearest to target_start_date, the earliest such
   entry when several are equally near, and a returned curve starts at that
   entry's date and value. *)
C4_NearestEntryIsStart ==
    (pc = "done" /\ args.target_start = None /\ Val(args.ts) # <<>>) =>
        LET s == Val(args.ts)
            want == Val(args.target_start_date)
            c == Returned(gt)
        IN  \E i \in 1..Len(s) :
                /\ \A j \in 1..Len(s) : Abs(s[i].date - want) <= Abs(s[j].date - want)
                /\ \A j \in 1..(i - 1) : Abs(s[j].date - want) > Abs(s[i].date - want)
                /\ gt.target_start_date = Some(s[i].date)
                /\ gt.target_start = Some(s[i].val)
                /\ (gt.exc = NoExc /\ Len(c) > 0) =>
                      /\ c[1].date = s[i].date
                      /\ FracEq(c[1].val, FracOfInt(s[i].val))

(* Two entries equally near, the later one first in the file: the curve
   starts at the first of them, not at the date passed. *)
C4_Witness ==
    /\ pc = "done"
    /\ args.target_start = None
    /\ Len(Val(args.ts)) = 2
    /\ Val(args.ts)[1].date = Val(args.target_start_date) + Day
    /\ Val(args.ts)[2].date = Val(args.target_start_date) - Day
    /\ gt.exc = NoExc
    /\ Len(Returned(gt)) > 1
    /\ Returned(gt)[1].date = Val(args.target_start_date) + Day

----------------------------------------------------------------------------
(* SpecAverages: the two averages of work computed from a series of
   observations *)

SampleValues == {0, 1, 3}

InitAverages ==
    /\ pc = "call"
    /\ ncalls = 0
    /\ args \in {[ts |-> v] : v \in UNION {[1..n -> SampleValues] : n \in 0..MaxRollLen}}
    /\ ts = None
    /\ gt = NoFrame
    /\ target = None
    /\ thresholds_index = None
    /\ figure = <<>>
    /\ images = <<>>
    /\ raised = NoExc
    /\ stdout = <<>>
    /\ roll = None

CallAverages ==
    /\ pc = "call"
    /\ roll' = Some([ra |-> RollingMean(args.ts, window),
                     ea |-> ExpandingMean(args.ts)])
    /\ ncalls' = ncalls + 1
    /\ pc' = "done"
    /\ UNCHANGED <<args, ts, gt, target, thresholds_index, figure, images,
                   raised, stdout>>

NextAverages == CallAverages

SpecAverages == InitAverages /\ [][NextAverages]_vars

(* The mean of the samples lo..hi of v *)
MeanOf(v, lo, hi) == Frac(SeqSum(SubSeq(v, lo, hi)), hi - lo + 1)

IsMean(x, v, lo, hi) == ~IsNaN(x) /\ FracEq(x, MeanOf(v, lo, hi))

(* C5, as claimed: the rolling mean has the length of the input and drops no
   value: each of the first six positions holds the mean of the samples
   available so far, every later position the mean of the last 7 samples. *)
C5_PartialWindowsAveraged ==
    pc = "done" =>
        LET v == args.ts
            ra == Val(roll).ra
        IN  /\ Len(ra) = Len(v)
            /\ \A i \in 1..Len(v) :
                  IF i < window THEN IsMean(ra[i], v, 1, i)
                  ELSE IsMean(ra[i], v, i - window + 1, i)

(* C5, amended: the rolling mean has the length of the input; each of the
   first six positions holds no value (NaN), every later position the mean
   of the last 7 samples. *)
C5_FullWindowsOnly ==
    pc = "done" =>
        LET v == args.ts
            ra == Val(roll).ra
        IN  /\ Len(ra) = Len(v)
            /\ \A i \in 1..Len(v) :
                  IF i < window THEN IsNaN(ra[i])
                  ELSE IsMean(ra[i], v, i - window + 1, i)

(* A series longer than the window, whose first sample has left the window
   at the last position *)
C5_Witness ==
    /\ pc = "done"
    /\ Len(args.ts) = window + 1
    /\ IsNaN(Val(roll).ra[window - 1])
    /\ ~IsNaN(Val(roll).ra[window])
    /\ ~FracEq(Val(roll).ra[window], Val(roll).ra[window + 1])

----------------------------------------------------------------------------
(* Claims about work, checked under SpecWork *)

(* The call in progress, or the last one, and whether it is over *)
Called == args # None
Finished == Called /\ pc = "idle"

DrawnBy(call) == {i \in DOMAIN figure : figure[i].call = call}
WrittenBy(call) == {i \in DOMAIN images : images[i].call = call}
PrintedBy(call) == {i \in DOMAIN stdout : stdout[i].call = call}

(* C1: for an empty input file the call of work ends by raising IndexError
   to its caller, whatever the other arguments are, and goes no further than
   reading the file. *)
C1_EmptyFileRaisesIndexError ==
    (Called /\ Val(args).time_series_filename = EmptyFile) =>
        /\ pc \in {"read", "idle"}
        /\ pc = "idle" => raised = "IndexError"

(* The call of tests.py: None for thresholds, names and colours, the target
   parameters left at None *)
C1_Witness ==
    /\ Finished
    /\ Val(args).time_series_filename = EmptyFile
    /\ Val(args).thresholds = None
    /\ Val(args).threshold_names = None
    /\ Val(args).threshold_colours = None
    /\ Val(args).target_start = None
    /\ Val(args).target_start_date = None
    /\ Val(args).target_gradient = None
    /\ raised = "IndexError"

(* The failure of reading each file that cannot be read *)
ReadFailure(file) ==
    IF file = MissingFile THEN "FileNotFoundError"
    ELSE IF file = MalformedFile THEN "ParserError"
    ELSE IF file = EmptyFile THEN "IndexError"
    ELSE NoExc

(* C6: when reading the input file fails, work prints one diagnostic and
   raises the same failure to the caller: no target curve is derived,
   nothing is drawn and no image is written; no diagnostic is printed by a
   call whose file was read, whatever fails later. *)
C6_ReadFailureLoggedAndRaised ==
    Called =>
        LET failure == ReadFailure(Val(args).time_series_filename)
        IN  /\ (pc = "idle" /\ failure # NoExc) =>
                  /\ Cardinality(PrintedBy(ncalls)) = 1
                  /\ \A i \in PrintedBy(ncalls) :
                        stdout[i].line = "Could not read data file"
                  /\ raised = failure
                  /\ ts = None
                  /\ gt = NoFrame
                  /\ target = None
                  /\ DrawnBy(ncalls) = {}
                  /\ WrittenBy(ncalls) = {}
            /\ failure = NoExc => PrintedBy(ncalls) = {}

C6_Witness ==
    /\ Finished
    /\ Val(args).time_series_filename = MalformedFile
    /\ raised = "ParserError"
    /\ Len(stdout) = 1

(* A call that read its file and failed later, with nothing printed *)
C6_WitnessLaterFailure ==
    /\ Finished
    /\ ts # None
    /\ raised # NoExc
    /\ stdout = <<>>

(* Direct calls of get_target with a start value given and an empty
   threshold list or a zero gradient *)
FailingTargetArgs ==
    {a \in TargetArgs :
        /\ a.target_start # None
        /\ a.thresholds # None
        /\ (a.thresholds = Some(<<>>) \/ a.target_gradient = Some(0))}

(* C7: get_target raises instead of returning a curve whenever thresholds is
   empty or target_gradient is zero; inside work the failure is raised to the
   caller, nothing is drawn and no image is written. *)
C7_TargetFailurePropagates ==
    /\ \A a \in FailingTargetArgs :
          GetTarget(a.target_start_date, a.target_gradient, a.target_start,
                    a.ts, a.thresholds).exc # NoExc
    /\ (/\ Called
        /\ ts # None
        /\ pc # "target"
        /\ (Val(args).thresholds = Some(<<>>) \/ Val(args).target_gradient = Some(0)))
       => /\ gt.exc # NoExc
          /\ target = None
          /\ pc = "idle"
          /\ raised = gt.exc
          /\ DrawnBy(ncalls) = {}
          /\ WrittenBy(ncalls) = {}

(* A zero gradient with thresholds given: the division fails *)
C7_Witness ==
    /\ Finished
    /\ ts # None
    /\ Val(args).target_gradient = Some(0)
    /\ Val(args).thresholds = Some(<<10, 20>>)
    /\ Val(args).target_start_date # None
    /\ raised = "OverflowError"

(* An empty threshold list with a gradient given: max/min fails *)
C7_WitnessEmptyThresholds ==
    /\ Finished
    /\ ts # None
    /\ Val(args).thresholds = Some(<<>>)
    /\ Val(args).target_gradient = Some(1)
    /\ Val(args).target_start_date # None
    /\ raised = "ValueError"

(* C8, as claimed: when work is called with target_start set, the target
   curve starts at exactly (target_start_date, target_start) as given by the
   caller. *)
C8_StartValueHonoured ==
    (/\ Called
     /\ Val(args).target_start # None
     /\ target # None
     /\ Val(target) # <<>>)
    => /\ Val(target)[1].date = Val(Val(args).target_start_date)
       /\ FracEq(Val(target)[1].val, FracOfInt(Val(Val(args).target_start)))

(* Every date of the observed series and of the target curve *)
AllDates == {Val(ts)[i].date : i \in DOMAIN Val(ts)}
               \cup {Val(target)[i].date : i \in DOMAIN Val(target)}

(* C10, as claimed: every threshold line drawn by work runs from the
   earliest date occurring in either series to the latest date occurring in
   either series, also for a series whose dates are not in ascending
   order. *)
C10_ThresholdLinesSpanAllDates ==
    Called =>
        \A i \in DrawnBy(ncalls) :
            figure[i].kind = "threshold" =>
                /\ \A d \in AllDates : figure[i].x[1] <= d
                /\ \A d \in AllDates : d <= figure[i].x[2]

----------------------------------------------------------------------------
(* Claim about repeated calls, checked under Spec *)

(* C9, as claimed: the image written by a call holds only what that call
   drew, none of the artists of an earlier call. *)
C9_ImageHoldsOnlyOwnArtists ==
    \A i \in DOMAIN images :
        \A j \in DOMAIN images[i].artists :
            images[i].artists[j].call = images[i].call

====
